---- MODULE Spec2Model ----
(***************************************************************************)
(* One execution of the transcription script src/main.py: the uploaded     *)
(* batch is validated, each accepted file is staged to a temporary file,   *)
(* handed to the speech model, post-processed, shown for editing and       *)
(* collected; the collected rows are exported as CSV.                      *)
(*                                                                         *)
(* Strings are sequences of one-character strings.  The file system, the   *)
(* speech model and the user are the environment: their outcomes (a read   *)
(* or write that raises, the model's result, an edit) are chosen with \E.  *)
(***************************************************************************)
EXTENDS Integers, Sequences, FiniteSets, TLC

VARIABLES
    uploaded_files, \* the batch returned by st.sidebar.file_uploader
    pc,             \* position of the script
    i,              \* position in uploaded_files of the loop variable `file`
    ext,            \* `ext` of the upload loop
    audio_bytes,    \* `audio_bytes`: None or the BytesIO of the current file
    tmp,            \* the open NamedTemporaryFile `tmp`: its path, or None
    tmp_path,       \* `tmp_path` of transcribe_from_bytesio
    disk,           \* paths of the temporary files that exist on disk
    tmp_made,       \* history: tmp_made[p] is the file position path p was created for
    result,         \* `result` of model.transcribe
    text,           \* `text`: what transcribe_from_bytesio returned
    pending,        \* how transcribe_from_bytesio leaves its try block: "return" or "raise"
    results,        \* `results`: the rows, or Deleted after `del results`
    text_areas,     \* history: the st.text_area widgets shown, in order
    log,            \* history: the messages shown (st.warning, st.info, ...), in order
    download        \* data of the st.download_button, or None

vars == <<uploaded_files, pc, i, ext, audio_bytes, tmp, tmp_path, disk, tmp_made,
          result, text, pending, results, text_areas, log, download>>

----------------------------------------------------------------------------
(* Bounds of the model *)

MaxFiles == 2
MaxPieces == 3

----------------------------------------------------------------------------
(* Constants of the program *)

\* Python's None, where a string, a character sequence, a path or a size is
\* expected; the unset `result`; the unbound name `results` after `del`
None == "None"
NoneStr == <<"None">>
NoPath == 0
NoSize == {}
NoResult == [unset |-> TRUE]
Deleted == <<[deleted |-> TRUE]>>

ALLOWED_EXT == {<<".", "m", "p", "3">>}
MAX_MB_EACH == 50
ALLOWED_MIME == {"audio/mpeg"}

\* 1024 * 1024, the divisor of size_mb
BytesPerMB == 1024 * 1024

\* the pair of the automatic replacement: "クラシャ" and "コラショ",
\* one symbol per kana (ku ra sha -> ko ra sho)
OldText == <<"ku", "ra", "shi", "ya_small">>
NewText == <<"ko", "ra", "shi", "yo_small">>

\* the columns of the export, "ファイル名" and "書き起こしテキスト", one symbol each
ColFileName == <<"col_filename">>
ColText == <<"col_text">>

Comma == ","
Quote == "\""
NewLine == "\n"
BOM == "BOM"

----------------------------------------------------------------------------
(* Pure functions *)

\* str.lower() on the characters file names are drawn from
Lower(c) ==
    CASE c = "M" -> "m"
      [] c = "P" -> "p"
      [] c = "A" -> "a"
      [] OTHER -> c

LowerStr(s) == [k \in 1..Len(s) |-> Lower(s[k])]

\* str.rfind(c): the last position of c in s, 0 when there is none
RFind(s, c) ==
    LET hits == {k \in 1..Len(s) : s[k] = c}
    IN IF hits = {} THEN 0 ELSE CHOOSE k \in hits : \A j \in hits : j <= k

\* os.path.splitext(p)[1]: from the last dot of the last path component,
\* unless that component has only leading dots before it
SplitExt(p) ==
    LET sepIndex == RFind(p, "/")
        dotIndex == RFind(p, ".")
    IN IF dotIndex > sepIndex
          /\ \E k \in (sepIndex + 1)..(dotIndex - 1) : p[k] # "."
       THEN SubSeq(p, dotIndex, Len(p))
       ELSE <<>>

\* _safe_ext(name): os.path.splitext(name or "")[1].lower()
_safe_ext(name) == LowerStr(SplitExt(IF name = NoneStr THEN <<>> ELSE name))

\* size_mb > MAX_MB_EACH, with size_mb = (file.size or 0) / (1024 * 1024):
\* the division by a power of two is exact in floating point for every
\* size below 2^53, so the comparison is that of the byte counts
\* the size check with >= for >: a file of exactly the maximum is skipped
SizeRejectedAtLimit(f) ==
    (IF f.size = NoSize THEN 0 ELSE CHOOSE n \in f.size : TRUE)
        >= MAX_MB_EACH * BytesPerMB

SizeRejected(f) ==
    (IF f.size = NoSize THEN 0 ELSE CHOOSE n \in f.size : TRUE)
        > MAX_MB_EACH * BytesPerMB

\* the extension check that only asks for some extension
ExtRejectedWhenNone(e) == e = <<>>

ExtRejected(e) == e \notin ALLOWED_EXT

\* getattr(file, "type", None) and file.type not in ALLOWED_MIME
MimeAdvisory(f) == f.type # None /\ f.type \notin ALLOWED_MIME

\* the validation that also skips a file whose content type is not allowed
VerdictStrictMime(f) ==
    IF SizeRejected(f) THEN "too_big"
    ELSE IF ExtRejected(_safe_ext(f.name)) \/ MimeAdvisory(f) THEN "bad_ext"
    ELSE "accept"

\* The verdict of the input validation on file f: the warning it is
\* skipped with, or "accept".  A content type outside the allow-list
\* does not change the verdict.
Verdict(f) ==
    IF SizeRejected(f) THEN "too_big"
    ELSE IF ExtRejected(_safe_ext(f.name)) THEN "bad_ext"
    ELSE "accept"

\* result.get("text", ""): a result is a record with or without a text field
GetText(r) == IF "text" \in DOMAIN r THEN r.text ELSE <<>>

\* str.replace(old, new, 1): only the first occurrence is replaced
RECURSIVE ReplaceFirst(_, _, _)
ReplaceFirst(s, old, new) ==
    IF Len(s) < Len(old) THEN s
    ELSE IF SubSeq(s, 1, Len(old)) = old
         THEN new \o SubSeq(s, Len(old) + 1, Len(s))
         ELSE <<Head(s)>> \o ReplaceFirst(Tail(s), old, new)

\* str.replace(old, new): the occurrences of old, found left to right
\* without overlap, are replaced by new
RECURSIVE Replace(_, _, _)
Replace(s, old, new) ==
    IF Len(s) < Len(old) THEN s
    ELSE IF SubSeq(s, 1, Len(old)) = old
         THEN new \o Replace(SubSeq(s, Len(old) + 1, Len(s)), old, new)
         ELSE <<Head(s)>> \o Replace(Tail(s), old, new)

\* (text or "").replace("クラシャ", "コラショ")
SafeText(t) == Replace(IF t = NoneStr THEN <<>> ELSE t, OldText, NewText)

\* A field as csv.writer with QUOTE_MINIMAL writes it: quoted when it holds
\* the delimiter, the quote character or a line break, quotes doubled
RECURSIVE DoubleQuotes(_)
DoubleQuotes(s) ==
    IF s = <<>> THEN <<>>
    ELSE (IF Head(s) = Quote THEN <<Quote, Quote>> ELSE <<Head(s)>>)
         \o DoubleQuotes(Tail(s))

\* a field written as it is, never quoted
CsvFieldUnquoted(s) == s

CsvField(s) ==
    IF \E k \in 1..Len(s) : s[k] \in {Comma, Quote, NewLine}
    THEN <<Quote>> \o DoubleQuotes(s) \o <<Quote>>
    ELSE s

CsvLine(fields) == CsvField(fields[1]) \o <<Comma>> \o CsvField(fields[2]) \o <<NewLine>>

RECURSIVE CsvLines(_)
CsvLines(rows) ==
    IF rows = <<>> THEN <<>>
    ELSE CsvLine(<<Head(rows).name, Head(rows).text>>) \o CsvLines(Tail(rows))

\* pd.DataFrame(results).to_csv(index=False): the header line, then one
\* line per row
to_csv(rows) == CsvLine(<<ColFileName, ColText>>) \o CsvLines(rows)

\* csv_data.encode("utf-8-sig"): the byte-order mark, then the characters
EncodeUtf8Sig(s) == <<BOM>> \o s

----------------------------------------------------------------------------
(* The inputs *)

\* a name whose extension is allowed once lower-cased, a name with another
\* extension, and a name that is all extension (which splitext gives none)
Names ==
    { <<"a", ".", "M", "p", "3">>,
      <<"c", ".", "w", "a", "v">>,
      <<".", "m", "p", "3">> }

\* the largest size the size check lets through, and one byte more
Sizes == {{MAX_MB_EACH * BytesPerMB}, {MAX_MB_EACH * BytesPerMB + 1}}

Types == {None, "audio/mpeg", "audio/wav"}

Files == [name : Names, size : Sizes, type : Types]

Batches == UNION {[1..n -> Files] : n \in 0..MaxFiles}

\* what the speech model returns in a run of the whole script: a text with
\* the replaced word and a comma
Transcripts == { OldText \o <<Comma, "x">> }

ModelResults == {[text |-> t] : t \in Transcripts}

\* what the speech model returns in a run of the post-processing alone:
\* a result without a text, a text of None, or up to MaxPieces pieces
TextPieces == { OldText, <<"ku">>, <<"ra", "shi">>, <<"ya_small">>, <<"x">> }

RECURSIVE Texts(_)
Texts(n) ==
    IF n = 0 THEN {<<>>}
    ELSE Texts(n - 1) \cup {t \o p : t \in Texts(n - 1), p \in TextPieces}

TextResults ==
    {[language |-> "ja"], [text |-> NoneStr]} \cup {[text |-> t] : t \in Texts(MaxPieces)}

\* what the user may have typed into a text area instead of its value
Edits == { <<Quote, NewLine>> }

----------------------------------------------------------------------------
(* The script *)

Msg(kind, idx) == [kind |-> kind, idx |-> idx]

file == uploaded_files[i]

Init ==
    /\ uploaded_files \in Batches
    /\ pc = "start"
    /\ i = 0
    /\ ext = NoneStr
    /\ audio_bytes = None
    /\ tmp = NoPath
    /\ tmp_path = NoPath
    /\ disk = {}
    /\ tmp_made = <<>>
    /\ result = NoResult
    /\ text = NoneStr
    /\ pending = None
    /\ results = <<>>
    /\ text_areas = <<>>
    /\ log = <<>>
    /\ download = NoneStr

\* `continue`, or the end of the for loop
Continue ==
    IF i < Len(uploaded_files)
    THEN i' = i + 1 /\ pc' = "validate"
    ELSE i' = i /\ pc' = "export"

\* if uploaded_files: ... else: st.info(...)
Start ==
    /\ pc = "start"
    /\ IF uploaded_files # <<>>
       THEN /\ i' = 1
            /\ pc' = "validate"
            /\ log' = log
       ELSE /\ i' = i
            /\ pc' = "idle"
            /\ log' = Append(log, Msg("upload_prompt", 0))
    /\ UNCHANGED <<uploaded_files, ext, audio_bytes, tmp, tmp_path, disk, tmp_made,
                   result, text, pending, results, text_areas, download>>

\* the input validation of one file: size, extension, content type
Validate ==
    /\ pc = "validate"
    /\ LET v == Verdict(file)
       IN IF v = "accept"
          THEN /\ ext' = _safe_ext(file.name)
               /\ log' = IF MimeAdvisory(file)
                         THEN Append(log, Msg("mime_info", i))
                         ELSE log
               /\ pc' = "read"
               /\ i' = i
          ELSE /\ ext' = IF v = "too_big" THEN ext ELSE _safe_ext(file.name)
               /\ log' = Append(log, Msg(v, i))
               /\ Continue
    /\ UNCHANGED <<uploaded_files, audio_bytes, tmp, tmp_path, disk, tmp_made,
                   result, text, pending, results, text_areas, download>>

\* the read without its except clause: the exception ends the script
HandleReadErrorUncaught ==
    /\ pc' = "crashed"
    /\ UNCHANGED <<log, i, audio_bytes>>

\* except Exception around _bytesio_from_uploaded: warn and continue
HandleReadError ==
    /\ log' = Append(log, Msg("read_fail", i))
    /\ Continue
    /\ UNCHANGED <<audio_bytes>>

\* _bytesio_from_uploaded(file), then the player, the file's name and size,
\* the spinner and audio_bytes.seek(0)
ReadBuffer ==
    /\ pc = "read"
    /\ \E ok \in BOOLEAN :
          IF ok
          THEN /\ audio_bytes' = "BytesIO"
               /\ log' = log \o <<Msg("audio", i), Msg("spinner", i)>>
               /\ pc' = "tmp_create"
               /\ i' = i
          ELSE HandleReadError
    /\ UNCHANGED <<uploaded_files, ext, tmp, tmp_path, disk, tmp_made,
                   result, text, pending, results, text_areas, download>>

\* the finally block of transcribe_from_bytesio: the file at path is removed
\* if path is set and exists; an os.remove that raises is swallowed
FinallyRemove(path, files, removeRaises) ==
    IF path # NoPath /\ path \in files
    THEN IF removeRaises THEN files ELSE files \ {path}
    ELSE files

\* the except clause with `break` for `continue`: the loop ends at the
\* first failed transcription
HandleTranscribeErrorBreak ==
    /\ log' = Append(log, Msg("transcribe_fail", i))
    /\ audio_bytes' = None
    /\ i' = i
    /\ pc' = "export"

\* except Exception around transcribe_from_bytesio: warn, release the buffer
\* (finally) and continue
HandleTranscribeError ==
    /\ log' = Append(log, Msg("transcribe_fail", i))
    /\ audio_bytes' = None
    /\ Continue

\* tempfile.NamedTemporaryFile(delete=False, suffix=suffix): a new file, or
\* an exception that leaves none
TmpCreate ==
    /\ pc = "tmp_create"
    /\ \E ok \in BOOLEAN, removeRaises \in BOOLEAN :
          IF ok
          THEN /\ tmp' = Len(tmp_made) + 1
               /\ tmp_made' = Append(tmp_made, i)
               /\ disk' = disk \cup {Len(tmp_made) + 1}
               /\ tmp_path' = NoPath
               /\ pc' = "tmp_write"
               /\ UNCHANGED <<i, log, audio_bytes>>
          ELSE /\ disk' = FinallyRemove(tmp_path, disk, removeRaises)
               /\ HandleTranscribeError
               /\ UNCHANGED <<tmp, tmp_made, tmp_path>>
    /\ UNCHANGED <<uploaded_files, ext, result, text, pending, results,
                   text_areas, download>>

\* tmp.write(bio.getbuffer()); tmp_path = tmp.name; the with block closes tmp.
\* A write that raises leaves tmp_path unset.
TmpWrite ==
    /\ pc = "tmp_write"
    /\ \E ok \in BOOLEAN, removeRaises \in BOOLEAN :
          IF ok
          THEN /\ tmp_path' = tmp
               /\ tmp' = NoPath
               /\ pc' = "transcribe"
               /\ UNCHANGED <<i, log, audio_bytes, disk>>
          ELSE /\ tmp' = NoPath
               /\ disk' = FinallyRemove(tmp_path, disk, removeRaises)
               /\ tmp_path' = tmp_path
               /\ HandleTranscribeError
    /\ UNCHANGED <<uploaded_files, ext, tmp_made, result, text, pending, results,
                   text_areas, download>>

\* result = model.transcribe(tmp_path); text = result.get("text", "")
TranscribeWith(outcomes) ==
    /\ pc = "transcribe"
    /\ \/ \E r \in outcomes :
             /\ result' = r
             /\ text' = GetText(r)
             /\ pending' = "return"
       \/ /\ pending' = "raise"
          /\ UNCHANGED <<result, text>>
    /\ pc' = "cleanup"
    /\ UNCHANGED <<uploaded_files, i, ext, audio_bytes, tmp, tmp_path, disk, tmp_made,
                   results, text_areas, log, download>>

Transcribe == TranscribeWith(ModelResults)

TranscribeText == TranscribeWith(TextResults)

\* the finally block after `return text`, then the caller's finally
CleanupReturn ==
    /\ pc = "cleanup"
    /\ pending = "return"
    /\ \E removeRaises \in BOOLEAN :
          disk' = FinallyRemove(tmp_path, disk, removeRaises)
    /\ tmp_path' = NoPath
    /\ pending' = None
    /\ audio_bytes' = None
    /\ pc' = "post"
    /\ UNCHANGED <<uploaded_files, i, ext, tmp, tmp_made, result, text, results,
                   text_areas, log, download>>

\* the finally block while the model's exception propagates, then the
\* caller's except and finally
CleanupRaise ==
    /\ pc = "cleanup"
    /\ pending = "raise"
    /\ \E removeRaises \in BOOLEAN :
          disk' = FinallyRemove(tmp_path, disk, removeRaises)
    /\ tmp_path' = NoPath
    /\ pending' = None
    /\ HandleTranscribeError
    /\ UNCHANGED <<uploaded_files, ext, tmp, tmp_made, result, text, results,
                   text_areas, download>>

\* the row appended twice
AppendResultTwice(rows, row) == Append(Append(rows, row), row)

\* results.append(row)
AppendResult(rows, row) == Append(rows, row)

\* st.success, the replacement, the text area and results.append
PostProcess ==
    /\ pc = "post"
    /\ LET safe_text == SafeText(text)
       IN \E edited_text \in {safe_text} \cup Edits :
             /\ text_areas' = Append(text_areas,
                                     [idx |-> i, label |-> file.name,
                                      value |-> safe_text, edited |-> edited_text])
             /\ results' = AppendResult(results,
                                        [name |-> file.name, text |-> edited_text])
    /\ log' = Append(log, Msg("success", i))
    /\ Continue
    /\ UNCHANGED <<uploaded_files, ext, audio_bytes, tmp, tmp_path, disk, tmp_made,
                   result, text, pending, download>>

\* except Exception around the export: warn
HandleExportError ==
    /\ log' = Append(log, Msg("export_fail", 0))
    /\ download' = download
    /\ pc' = "idle"

\* if results: the CSV and its download button, or a warning; del results
Export ==
    /\ pc = "export"
    /\ IF results = <<>>
       THEN /\ pc' = "idle"
            /\ UNCHANGED <<results, log, download>>
       ELSE /\ \E ok \in BOOLEAN :
                  IF ok
                  THEN /\ download' = EncodeUtf8Sig(to_csv(results))
                       /\ log' = Append(log, Msg("download_button", 0))
                       /\ pc' = "idle"
                  ELSE HandleExportError
            /\ results' = Deleted
    /\ UNCHANGED <<uploaded_files, i, ext, audio_bytes, tmp, tmp_path, disk, tmp_made,
                   result, text, pending, text_areas>>

Next ==
    \/ Start
    \/ Validate
    \/ ReadBuffer
    \/ TmpCreate
    \/ TmpWrite
    \/ Transcribe
    \/ CleanupReturn
    \/ CleanupRaise
    \/ PostProcess
    \/ Export

Spec == Init /\ [][Next]_vars

\* The script runs to its end: no step that can be taken is put off forever.
FairSpec == Spec /\ WF_vars(Next)

\* The post-processing alone: one accepted file has been staged and is handed
\* to the speech model, whose result is drawn from TextResults.
InitText ==
    /\ uploaded_files = <<[name |-> <<"a", ".", "M", "p", "3">>,
                           size |-> {MAX_MB_EACH * BytesPerMB},
                           type |-> "audio/mpeg"]>>
    /\ pc = "transcribe"
    /\ i = 1
    /\ ext = <<".", "m", "p", "3">>
    /\ audio_bytes = "BytesIO"
    /\ tmp = NoPath
    /\ tmp_path = 1
    /\ disk = {1}
    /\ tmp_made = <<1>>
    /\ result = NoResult
    /\ text = NoneStr
    /\ pending = None
    /\ results = <<>>
    /\ text_areas = <<>>
    /\ log = <<Msg("audio", 1), Msg("spinner", 1)>>
    /\ download = NoneStr

NextText ==
    \/ TranscribeText
    \/ CleanupReturn
    \/ CleanupRaise
    \/ PostProcess
    \/ Export

SpecText == InitText /\ [][NextText]_vars

----------------------------------------------------------------------------
(* What the claims are stated with *)

Range(f) == {f[k] : k \in DOMAIN f}

HasMsg(kind, k) == \E n \in 1..Len(log) : log[n] = Msg(kind, k)

Positions == 1..Len(uploaded_files)

\* the declared size of file k in bytes
Bytes(k) ==
    IF uploaded_files[k].size = NoSize THEN 0
    ELSE CHOOSE n \in uploaded_files[k].size : TRUE

Oversized(k) == Bytes(k) > MAX_MB_EACH * BytesPerMB

BadExt(k) == _safe_ext(uploaded_files[k].name) \notin ALLOWED_EXT

\* the loop has left file k behind
Passed(k) == k < i \/ pc \in {"export", "idle", "crashed"}

\* file k ended with one of the loop's outcomes
Handled(k) ==
    \E kind \in {"too_big", "bad_ext", "read_fail", "transcribe_fail", "success"} :
        HasMsg(kind, k)

\* the text areas shown for file k
AreasOf(k) == {t \in 1..Len(text_areas) : text_areas[t].idx = k}

\* A reader of CSV (RFC 4180): the rows of s, each the sequence of its fields
RECURSIVE CsvRead(_, _, _, _, _)
CsvRead(s, quoted, field, row, rows) ==
    IF s = <<>> THEN rows
    ELSE LET c == Head(s)
             r == Tail(s)
         IN IF quoted
            THEN IF c = Quote
                 THEN IF r # <<>> /\ Head(r) = Quote
                      THEN CsvRead(Tail(r), TRUE, Append(field, Quote), row, rows)
                      ELSE CsvRead(r, FALSE, field, row, rows)
                 ELSE CsvRead(r, TRUE, Append(field, c), row, rows)
            ELSE IF c = Quote THEN CsvRead(r, TRUE, field, row, rows)
                 ELSE IF c = Comma
                      THEN CsvRead(r, FALSE, <<>>, Append(row, field), rows)
                 ELSE IF c = NewLine
                      THEN CsvRead(r, FALSE, <<>>, <<>>, Append(rows, Append(row, field)))
                 ELSE CsvRead(r, FALSE, Append(field, c), row, rows)

\* the data rows of the downloaded export: the rows after the byte-order mark
\* and the header line
ExportRows == Tail(CsvRead(Tail(download), FALSE, <<>>, <<>>, <<>>))

\* what file k's row is to hold: its name and the text left in its text area
RowOf(t) == <<uploaded_files[text_areas[t].idx].name, text_areas[t].edited>>

----------------------------------------------------------------------------
(* The claims *)

\* C1: whenever the script is outside transcribe_from_bytesio, no temporary
\* file it created exists on disk, whichever way the call ended.
C1_NoTempFileAfterCall ==
    pc \notin {"tmp_write", "transcribe", "cleanup"} => disk = {}

\* C2: a file whose lower-cased extension is outside ALLOWED_EXT is never
\* handed to transcribe_from_bytesio (no spinner, no temporary file, no text
\* area for it), and no row of results or of the export carries its name.
C2_BadExtNeverTranscribed ==
    /\ download # NoneStr =>
          LET rows == ExportRows
          IN \A k \in Positions, r \in 1..Len(rows) :
                 BadExt(k) => rows[r][1] # uploaded_files[k].name
    /\ \A k \in Positions :
        BadExt(k) =>
            /\ ~HasMsg("spinner", k)
            /\ k \notin Range(tmp_made)
            /\ AreasOf(k) = {}
            /\ pc \in {"tmp_create", "tmp_write", "transcribe", "cleanup", "post"} => i # k
            /\ results # Deleted =>
                  \A r \in 1..Len(results) : results[r].name # uploaded_files[k].name

C2_Witness ==
    /\ pc = "idle"
    /\ download # NoneStr
    /\ \E k \in Positions : BadExt(k) /\ ~Oversized(k) /\ HasMsg("bad_ext", k)
    /\ \E j \in Positions : HasMsg("success", j)

\* C3: a file whose size is over MAX_MB_EACH megabytes is skipped by the size
\* check: no temporary file is ever created for it, it never reaches the
\* read or the transcription, it gets no row; a file of exactly MAX_MB_EACH
\* megabytes is not skipped by the size check.
C3_OversizedSkippedFirst ==
    \A k \in Positions :
        /\ Oversized(k) =>
              /\ k \notin Range(tmp_made)
              /\ ~HasMsg("audio", k) /\ ~HasMsg("spinner", k) /\ ~HasMsg("read_fail", k)
              /\ AreasOf(k) = {}
              /\ pc \in {"read", "tmp_create", "tmp_write", "transcribe", "cleanup", "post"}
                    => i # k
              /\ Passed(k) => HasMsg("too_big", k)
        /\ Bytes(k) = MAX_MB_EACH * BytesPerMB => ~HasMsg("too_big", k)

C3_Witness ==
    /\ pc = "idle"
    /\ \E k \in Positions : Oversized(k) /\ HasMsg("too_big", k)
    /\ \E j \in Positions : Bytes(j) = MAX_MB_EACH * BytesPerMB /\ HasMsg("success", j)

\* C4: once the loop is over, a file whose transcription failed has no row,
\* and every file after it was handled all the same: each later file that
\* was transcribed has its row in results and, when the export was made, in
\* the export.
C4_FailureDoesNotStopBatch ==
    pc \in {"export", "idle"} =>
        \A k \in Positions :
            HasMsg("transcribe_fail", k) =>
                /\ AreasOf(k) = {}
                /\ \A j \in (k + 1)..Len(uploaded_files) :
                      /\ Handled(j)
                      /\ HasMsg("success", j) =>
                            \E t \in AreasOf(j) :
                                /\ results # Deleted =>
                                      /\ t <= Len(results)
                                      /\ <<results[t].name, results[t].text>> = RowOf(t)
                                /\ download # NoneStr =>
                                      LET rows == ExportRows
                                      IN t <= Len(rows) /\ rows[t] = RowOf(t)

C4_Witness ==
    /\ pc = "idle"
    /\ download # NoneStr
    /\ Len(uploaded_files) = 2
    /\ HasMsg("transcribe_fail", 1)
    /\ HasMsg("success", 2)

\* C5: the export starts with the byte-order mark and the header line, and
\* its data rows, read back, are one per file that passed validation and was
\* transcribed, in upload order, each the file's name and the text left in
\* its text area; results held the same rows when the loop ended.
C5_ExportRoundTrip ==
    LET ok == {k \in Positions : ~Oversized(k) /\ ~BadExt(k) /\ HasMsg("success", k)}
        inOrder == \A t, u \in 1..Len(text_areas) :
                       t < u => text_areas[t].idx < text_areas[u].idx
    IN /\ pc = "export" =>
             /\ Len(results) = Cardinality(ok)
             /\ {text_areas[t].idx : t \in 1..Len(text_areas)} = ok
             /\ inOrder
             /\ \A t \in 1..Len(results) :
                    <<results[t].name, results[t].text>> = RowOf(t)
       /\ (pc = "idle" /\ download # NoneStr) =>
             LET lines == CsvRead(Tail(download), FALSE, <<>>, <<>>, <<>>)
             IN /\ Head(download) = BOM
                /\ Head(lines) = <<ColFileName, ColText>>
                /\ Len(lines) = 1 + Cardinality(ok)
                /\ {text_areas[t].idx : t \in 1..Len(text_areas)} = ok
                /\ inOrder
                /\ \A t \in 1..Cardinality(ok) : lines[t + 1] = RowOf(t)

C5_Witness ==
    /\ pc = "idle"
    /\ download # NoneStr
    /\ Len(uploaded_files) = 2
    /\ ExportRows = << <<uploaded_files[1].name, <<Quote, NewLine>> >>,
                       <<uploaded_files[2].name, NewText \o <<Comma, "x">> >> >>

\* C6: results holds at most one row per file position, each row is that of
\* a file shown in a text area, and no row is that of a file rejected by the
\* size check, by the extension check or by a failed read.
C6_AtMostOneRowPerFile ==
    /\ results # Deleted =>
          /\ Len(results) = Len(text_areas)
          /\ \A t \in 1..Len(results) : results[t].name = RowOf(t)[1]
    /\ \A k \in Positions :
          /\ Cardinality(AreasOf(k)) <= 1
          /\ (Oversized(k) \/ BadExt(k) \/ HasMsg("read_fail", k)) => AreasOf(k) = {}

C6_Witness ==
    /\ pc = "export"
    /\ Len(uploaded_files) = 2
    /\ Len(results) = 1
    /\ \E k \in Positions : HasMsg("read_fail", k)

\* C7: the script never ends in an uncaught exception and always reaches
\* its idle state; when the export fails a warning is shown, nothing is
\* offered for download and results is deleted.
C7_NoFatalError ==
    /\ [](pc # "crashed")
    /\ [](HasMsg("export_fail", 0) => (pc = "idle" /\ download = NoneStr /\ results = Deleted))
    /\ <>(pc = "idle")

C7_Witness ==
    /\ pc = "idle"
    /\ HasMsg("export_fail", 0)
    /\ \E k \in Positions : HasMsg("read_fail", k) \/ HasMsg("transcribe_fail", k)

\* C8: the value of the text area is the model's text (the empty text when
\* the result has none or None) with every occurrence of OldText replaced by
\* NewText, character for character, and every other character left as it is.
C8_ReplacementExact ==
    text_areas # <<>> =>
        LET in == IF "text" \in DOMAIN result /\ result.text # NoneStr
                  THEN result.text ELSE <<>>
            out == text_areas[Len(text_areas)].value
            occ == {p \in 1..(Len(in) - Len(OldText) + 1) :
                        SubSeq(in, p, p + Len(OldText) - 1) = OldText}
        IN /\ Len(out) = Len(in)
           /\ \A q \in 1..Len(in) :
                 IF \E p \in occ : p <= q /\ q < p + Len(OldText)
                 THEN \E p \in occ : /\ p <= q /\ q < p + Len(OldText)
                                     /\ out[q] = NewText[q - p + 1]
                 ELSE out[q] = in[q]
           /\ (occ = {} => out = in)

C8_Witness ==
    /\ text_areas # <<>>
    /\ result = [text |-> OldText \o <<"x">> \o OldText]
    /\ text_areas[1].value = NewText \o <<"x">> \o NewText

\* C9: whether a file is read and transcribed does not depend on its content
\* type: every file the loop has left behind reached the read exactly when
\* it passed the size and extension checks; the advisory is shown exactly for
\* a passing file whose declared type is outside ALLOWED_MIME; a transcribed
\* file has its text area whatever its type.
C9_MimeIsAdvisory ==
    \A k \in Positions :
        Passed(k) =>
            LET f == uploaded_files[k]
                passes == ~Oversized(k) /\ ~BadExt(k)
            IN /\ (HasMsg("audio", k) \/ HasMsg("read_fail", k)) <=> passes
               /\ HasMsg("mime_info", k) <=>
                     (passes /\ f.type # None /\ f.type \notin ALLOWED_MIME)
               /\ HasMsg("success", k) <=> AreasOf(k) # {}

C9_Witness ==
    /\ pc = "export"
    /\ Len(results) = 2
    /\ uploaded_files[1].type = "audio/wav"
    /\ uploaded_files[2].type = None
    /\ HasMsg("mime_info", 1)
    /\ ~HasMsg("mime_info", 2)

\* C10: at every moment at most one temporary file exists, and it is the
\* one of the file the loop is at.
C10_OneTempFileAtATime ==
    /\ Cardinality(disk) <= 1
    /\ \A p \in disk : tmp_made[p] = i

====
